---- MODULE Spec2Model ----
(***************************************************************************)
(* The wookie stepping executors: the heap-backed harness of               *)
(* src/src/wookie.rs ("Wookie"), the stack-only harness of                 *)
(* src/src/local.rs ("Local") and the pointer-based executor of            *)
(* src/src/lib.rs ("Woke").  One harness drives one task; the task and     *)
(* the holders of cloned wakers issue clone / wake / wake_by_ref / drop    *)
(* through the waker vtable, which bumps the counters of the Wakey.  The   *)
(* harness of src/src/dummy.rs ("Dummy") polls with a waker that has no    *)
(* Wakey behind it.                                                        *)
(***************************************************************************)
EXTENDS Integers, Sequences, FiniteSets, Bags, TLC

\* Width of the counters: AtomicU16 / Cell<u16> (wookie.rs, local.rs), u32 (lib.rs).
\* A u32 is kept as its two 16-bit halves <<high, low>>.
U16Modulus == 65536

\* Bounds of the exploration.
MaxOps == 3        \* vtable operations issued in one behaviour (the burst apart)
MaxCalls == 2      \* calls of harness methods in one behaviour
MaxVal == 2        \* distinct outputs the task may complete with
Headroom == 2      \* distance below the wrap point at which a worn harness starts
BurstChunk == 32   \* wake_by_ref calls of a burst taken in one step
MaxThreads == 2    \* threads that hold cloned wakers (SpecConc)
MaxConcOps == 4    \* vtable operations the threads issue in one behaviour (SpecConc)
MaxLoads == 1      \* calls of stats() / live() of the main thread (SpecConc)

VARIABLES
    variant,        \* which harness: "Wookie" | "Local" | "Woke" | "Dummy"
    overflowChecks, \* the build: are integer overflow checks compiled in
    wakey,          \* the Wakey (counters) and the state of its storage
    alive,          \* the harness has not been dropped
    pc,             \* "idle" | "advance" (inside Future::poll) | "dead" | "unwound";
                    \* in SpecConc the position of the main thread
    call,           \* the harness method in progress or last called
    recorded,       \* poll_while_woken's local `woken` (lib.rs: `count`);
                    \* in SpecConc the loads stats() / live() have made so far
    ret,            \* what the last harness method returned
    taskDone,       \* the future has returned Ready
    heldTask,       \* cloned wakers stored inside the future
    heldExt,        \* cloned wakers stored outside the harness (SpecConc: the threads)
    burstLeft,      \* wake_by_ref calls the task still issues first in its advance
    fuel,           \* vtable operations left (bound)
    callsLeft,      \* calls of harness methods left (bound)
    hist            \* observation of the run (what the claims speak about)

vars == <<variant, overflowChecks, wakey, alive, pc, call, recorded, ret,
          taskDone, heldTask, heldExt, burstLeft, fuel, callsLeft, hist>>

Variants == {"Wookie", "Local", "Woke", "Dummy"}
Values == 1..MaxVal

\* Poll<T>
NoRet == [tag |-> "None", val |-> 0]
Pending == [tag |-> "Pending", val |-> 0]
Ready(v) == [tag |-> "Ready", val |-> v]
Panic == [tag |-> "Panic", val |-> 0]
TaskResults == {Pending} \cup {Ready(v) : v \in Values}

(***************************************************************************)
(* The Wakey and its storage.  strong is the Arc's strong count (Wookie);  *)
(* freed: the storage has been released; frees: how many times; uaf: some  *)
(* operation dereferenced released storage; panicked: an arithmetic        *)
(* overflow check failed and the call is unwinding.  counter is the u32    *)
(* of lib.rs (the other fields are those of wookie.rs and local.rs).       *)
(***************************************************************************)
Wakey_default ==
    [cloned |-> 0, dropped |-> 0, woken |-> 0, counter |-> <<0, 0>>,
     strong |-> 0, freed |-> FALSE, frees |-> 0, uaf |-> FALSE, panicked |-> FALSE]

\* Dereference of the raw pointer the waker carries.
deref(s) == IF s.freed THEN [s EXCEPT !.uaf = TRUE] ELSE s

\* Mutant: fetch_sub in place of fetch_add.
Mut_fetch_sub(x) == (x - 1) % U16Modulus
\* AtomicU16::fetch_add(1, Relaxed): wraps, never fails.
fetch_add(x) == (x + 1) % U16Modulus

\* `x + 1` on an unsigned integer of modulus m: wraps when overflow checks are
\* off, panics when they are on.
add_overflows(x, m, oc) == oc /\ x + 1 >= m
add_one(x, m) == (x + 1) % m

\* ---- wookie.rs: Wakey, wookie_rawwaker ----
Wookie_bump_cloned(s) == LET t == deref(s) IN [t EXCEPT !.cloned = fetch_add(t.cloned)]
Wookie_bump_woken(s) == LET t == deref(s) IN [t EXCEPT !.woken = fetch_add(t.woken)]
Wookie_bump_dropped(s) == LET t == deref(s) IN [t EXCEPT !.dropped = fetch_add(t.dropped)]

\* Mutant: clone hands out a handle without taking a reference.
Mut_increment_skipped(s) == deref(s)
Arc_increment_strong_count(s) == LET t == deref(s) IN [t EXCEPT !.strong = t.strong + 1]

\* Drop of one Arc<Wakey>: the last one releases the storage.
Arc_drop(s) ==
    IF s.freed THEN [s EXCEPT !.uaf = TRUE, !.frees = s.frees + 1]
    ELSE IF s.strong <= 1 THEN [s EXCEPT !.strong = 0, !.freed = TRUE, !.frees = s.frees + 1]
    ELSE [s EXCEPT !.strong = s.strong - 1]

Wookie_do_clone(s) == Arc_increment_strong_count(Wookie_bump_cloned(s))
Wookie_do_wake(s) == Arc_drop(Wookie_bump_dropped(Wookie_bump_woken(s)))
\* Mutant: do_wake_by_ref without ManuallyDrop, so that its Arc is released.
Mut_do_wake_by_ref_releases(s) == Arc_drop(Wookie_bump_woken(s))
Wookie_do_wake_by_ref(s) == Wookie_bump_woken(s)
\* Mutant: do_drop gives up its reference before it bumps the counter.
Mut_do_drop_releases_first(s) == Wookie_bump_dropped(Arc_drop(s))
Wookie_do_drop(s) == Arc_drop(Wookie_bump_dropped(s))

\* ---- local.rs: Wakey, raw_waker ----
Local_bump_cloned(s, oc) ==
    IF s.panicked THEN s
    ELSE LET t == deref(s) IN
         IF add_overflows(t.cloned, U16Modulus, oc) THEN [t EXCEPT !.panicked = TRUE]
         ELSE [t EXCEPT !.cloned = add_one(t.cloned, U16Modulus)]
Local_bump_woken(s, oc) ==
    IF s.panicked THEN s
    ELSE LET t == deref(s) IN
         IF add_overflows(t.woken, U16Modulus, oc) THEN [t EXCEPT !.panicked = TRUE]
         ELSE [t EXCEPT !.woken = add_one(t.woken, U16Modulus)]
Local_bump_dropped(s, oc) ==
    IF s.panicked THEN s
    ELSE LET t == deref(s) IN
         IF add_overflows(t.dropped, U16Modulus, oc) THEN [t EXCEPT !.panicked = TRUE]
         ELSE [t EXCEPT !.dropped = add_one(t.dropped, U16Modulus)]

Local_do_clone(s, oc) == Local_bump_cloned(s, oc)
Local_do_wake_by_ref(s, oc) == Local_bump_woken(s, oc)
Local_do_drop(s, oc) == Local_bump_dropped(s, oc)
\* Mutant: do_wake calls do_drop before do_wake_by_ref.
Mut_do_wake_drops_first(s, oc) == Local_do_wake_by_ref(Local_do_drop(s, oc), oc)
Local_do_wake(s, oc) == Local_do_drop(Local_do_wake_by_ref(s, oc), oc)

\* ---- lib.rs: VTABLE ----
\* `**d += 1` on the u32 counter.
u32_overflows(c, oc) == oc /\ c = <<U16Modulus - 1, U16Modulus - 1>>
u32_add_one(c) ==
    IF c[2] + 1 < U16Modulus THEN <<c[1], c[2] + 1>> ELSE <<(c[1] + 1) % U16Modulus, 0>>

VTABLE_clone(s) == s
VTABLE_wake(s, oc) ==
    LET t == deref(s) IN
    IF u32_overflows(t.counter, oc) THEN [t EXCEPT !.panicked = TRUE]
    ELSE [t EXCEPT !.counter = u32_add_one(t.counter)]
VTABLE_wake_by_ref(s, oc) ==
    LET t == deref(s) IN
    IF u32_overflows(t.counter, oc) THEN [t EXCEPT !.panicked = TRUE]
    ELSE [t EXCEPT !.counter = u32_add_one(t.counter)]
VTABLE_drop(s) == s

\* ---- dummy.rs: the waker of dummy_waker() ----
\* "A single-stepping executor whose waker does absolutely nothing": the four
\* vtable functions of the dummy waker touch no state of the harness.
Dummy_clone(s) == s
Dummy_wake(s) == s
Dummy_wake_by_ref(s) == s
Dummy_drop_waker(s) == s

\* ---- the vtable of the waker of harness v ----
do_clone(v, s, oc) ==
    CASE v = "Wookie" -> Wookie_do_clone(s)
      [] v = "Local" -> Local_do_clone(s, oc)
      [] v = "Dummy" -> Dummy_clone(s)
      [] OTHER -> VTABLE_clone(s)
do_wake(v, s, oc) ==
    CASE v = "Wookie" -> Wookie_do_wake(s)
      [] v = "Local" -> Local_do_wake(s, oc)
      [] v = "Dummy" -> Dummy_wake(s)
      [] OTHER -> VTABLE_wake(s, oc)
do_wake_by_ref(v, s, oc) ==
    CASE v = "Wookie" -> Wookie_do_wake_by_ref(s)
      [] v = "Local" -> Local_do_wake_by_ref(s, oc)
      [] v = "Dummy" -> Dummy_wake_by_ref(s)
      [] OTHER -> VTABLE_wake_by_ref(s, oc)
do_drop(v, s, oc) ==
    CASE v = "Wookie" -> Wookie_do_drop(s)
      [] v = "Local" -> Local_do_drop(s, oc)
      [] v = "Dummy" -> Dummy_drop_waker(s)
      [] OTHER -> VTABLE_drop(s)

\* n successive wake_by_ref calls (a panic ends them).
RECURSIVE wake_by_ref_times(_, _, _, _)
wake_by_ref_times(v, s, oc, n) ==
    IF n = 0 \/ s.panicked THEN s
    ELSE wake_by_ref_times(v, do_wake_by_ref(v, s, oc), oc, n - 1)

\* ---- construction ----
Wookie_new == [Wakey_default EXCEPT !.strong = 1]
Local_new == Wakey_default
Woke_new == Wakey_default
\* Dummy(future): the harness has no field besides the future.
Dummy_new == Wakey_default
new(v) ==
    CASE v = "Wookie" -> Wookie_new
      [] v = "Local" -> Local_new
      [] v = "Dummy" -> Dummy_new
      [] OTHER -> Woke_new


\* ---- the per-poll waker ----
\* Wookie::waker / Local::waker / lib.rs Wookie::waker: Waker::from_raw over the
\* raw pointer; no vtable function runs.
\* Mutant: Wookie::waker takes a reference of its own for the per-poll waker.
Mut_waker_takes_reference(s) == Arc_increment_strong_count(s)
Wookie_waker(s) == s
Local_waker(s) == s
Woke_waker(s) == s
Dummy_waker(s) == s
waker(v, s) ==
    CASE v = "Wookie" -> Wookie_waker(s)
      [] v = "Local" -> Local_waker(s)
      [] v = "Dummy" -> Dummy_waker(s)
      [] OTHER -> Woke_waker(s)

\* What leaving poll does with that waker: wookie.rs and local.rs wrap it in
\* ManuallyDrop (nothing runs); lib.rs lets it go out of scope (vtable drop).
\* Mutant: poll without ManuallyDrop, so that the per-poll waker is dropped.
Mut_poll_drops_waker(s) == Wookie_do_drop(s)
Wookie_poll_leave(s) == s
\* Mutant: Local::poll without ManuallyDrop, so that the per-poll waker is dropped.
Mut_Local_poll_drops_waker(s, oc) == Local_do_drop(s, oc)
Local_poll_leave(s, oc) == s
Woke_poll_leave(s) == VTABLE_drop(s)
Dummy_poll_leave(s) == s
poll_leave(v, s, oc) ==
    CASE v = "Wookie" -> Wookie_poll_leave(s)
      [] v = "Local" -> Local_poll_leave(s, oc)
      [] v = "Dummy" -> Dummy_poll_leave(s)
      [] OTHER -> Woke_poll_leave(s)

\* ---- poll ----
\* What poll does with the result r of its advance: it returns it.
poll_step(r, rec) == [done |-> TRUE, ret |-> r, recorded |-> rec]
\* Mutant: Dummy::poll polls again until the task is Ready.
Mut_poll_step_until_ready(r, rec) ==
    [done |-> r.tag = "Ready", ret |-> IF r.tag = "Ready" THEN r ELSE NoRet, recorded |-> rec]
Dummy_poll_step(r, rec) == [done |-> TRUE, ret |-> r, recorded |-> rec]

\* ---- poll_while_woken ----
\* The value recorded before the first advance.
\* Mutant: the recorded value starts at zero instead of the current count.
Mut_pww_enter_zero(s) == 0
Wookie_pww_enter(s) == s.woken
Local_pww_enter(s) == s.woken
Woke_pww_enter(s) == s.counter
pww_enter(v, s) ==
    CASE v = "Wookie" -> Wookie_pww_enter(s)
      [] v = "Local" -> Local_pww_enter(s)
      [] OTHER -> Woke_pww_enter(s)

\* The rest of one loop iteration, after the advance returned r with the counter
\* at w and the recorded value rec: done (return ret) or go round again.
\* Mutant: `woken = w` is missing, the loop keeps comparing with the first value.
Mut_pww_step_stale(r, w, rec) ==
    IF r.tag = "Ready" THEN [done |-> TRUE, ret |-> r, recorded |-> rec]
    ELSE IF w = rec THEN [done |-> TRUE, ret |-> Pending, recorded |-> rec]
    ELSE [done |-> FALSE, ret |-> NoRet, recorded |-> rec]
\* Mutant: the counter is compared before the result is looked at.
Mut_pww_step_wake_first(r, w, rec) ==
    IF w # rec THEN [done |-> FALSE, ret |-> NoRet, recorded |-> w]
    ELSE [done |-> TRUE, ret |-> r, recorded |-> rec]
Wookie_pww_step(r, w, rec) ==
    IF r.tag = "Ready" THEN [done |-> TRUE, ret |-> r, recorded |-> rec]
    ELSE IF w = rec THEN [done |-> TRUE, ret |-> Pending, recorded |-> rec]
    ELSE [done |-> FALSE, ret |-> NoRet, recorded |-> w]
\* Mutant: no loop, the call returns after its first advance.
Mut_pww_step_once(r, w, rec) == [done |-> TRUE, ret |-> r, recorded |-> rec]
Local_pww_step(r, w, rec) ==
    IF r.tag = "Ready" THEN [done |-> TRUE, ret |-> r, recorded |-> rec]
    ELSE IF w = rec THEN [done |-> TRUE, ret |-> Pending, recorded |-> rec]
    ELSE [done |-> FALSE, ret |-> NoRet, recorded |-> w]
\* lib.rs reads `count` afresh at the top of every iteration.
Woke_pww_step(r, w, rec) ==
    IF r.tag = "Ready" THEN [done |-> TRUE, ret |-> r, recorded |-> rec]
    ELSE IF w = rec THEN [done |-> TRUE, ret |-> Pending, recorded |-> rec]
    ELSE [done |-> FALSE, ret |-> NoRet, recorded |-> w]
pww_step(v, r, w, rec) ==
    CASE v = "Wookie" -> Wookie_pww_step(r, w, rec)
      [] v = "Local" -> Local_pww_step(r, w, rec)
      [] OTHER -> Woke_pww_step(r, w, rec)

\* ---- destruction of the harness (drop glue of the struct) ----
RECURSIVE drop_wakers(_, _, _, _)
drop_wakers(v, s, n, oc) ==
    IF n = 0 THEN s ELSE drop_wakers(v, do_drop(v, s, oc), n - 1, oc)

\* Wookie { wakey: Arc<Wakey>, ptr, future }: fields drop in declaration order,
\* the Arc first, then the future with the n wakers it stores.
Wookie_drop(s, n) == drop_wakers("Wookie", Arc_drop(s), n, FALSE)
\* Local { wakey: Wakey, future }: the future's wakers drop, then the storage
\* of the inline Wakey ends with the harness.
\* Mutant: the storage of the Wakey outlives the harness.
Mut_Local_drop_keeps_wakey(s, n, oc) == drop_wakers("Local", s, n, oc)
Local_drop(s, n, oc) ==
    LET t == drop_wakers("Local", s, n, oc) IN [t EXCEPT !.freed = TRUE, !.frees = t.frees + 1]
\* Woke { wookie, future }: the counter is a field of the harness.
Woke_drop(s, n, oc) ==
    LET t == drop_wakers("Woke", s, n, oc) IN [t EXCEPT !.freed = TRUE, !.frees = t.frees + 1]
\* Dummy(future): the future drops with the n wakers it stores.
Dummy_drop(s, n) == drop_wakers("Dummy", s, n, FALSE)
harness_drop(v, s, n, oc) ==
    CASE v = "Wookie" -> Wookie_drop(s, n)
      [] v = "Local" -> Local_drop(s, n, oc)
      [] v = "Dummy" -> Dummy_drop(s, n)
      [] OTHER -> Woke_drop(s, n, oc)

\* ---- accessors ----
Wookie_woken(s) == s.woken
Local_woken(s) == s.woken
Woke_count(s) == s.counter
woken_of(v, s) ==
    CASE v = "Wookie" -> Wookie_woken(s) [] v = "Local" -> Local_woken(s) [] OTHER -> Woke_count(s)
Counters(s) ==
    [cloned |-> s.cloned, dropped |-> s.dropped, woken |-> s.woken, counter |-> s.counter]

(***************************************************************************)
(* Initial states: a harness just constructed, or one that has already     *)
(* seen c0 clone/drop pairs and w0 wake_by_ref calls (no waker is          *)
(* outstanding), so that runs near the wrap point are within reach; for    *)
(* lib.rs the worn counter stands Headroom below 2^32.  The Dummy harness  *)
(* has no counters to wear.                                                *)
(***************************************************************************)
Starts == {0, U16Modulus - Headroom}

hist0(c0, w0) ==
    [advances |-> 0, wakesAdv |-> 0, prevWakes |-> 0, lastResult |-> NoRet,
     wakesCall |-> 0, wakesBefore |-> 0, oneEach |-> TRUE,
     opsCall |-> 0, opsDead |-> 0,
     entry |-> [cloned |-> 0, dropped |-> 0, woken |-> 0, counter |-> <<0, 0>>],
     nClones |-> c0, nWakes |-> 0, nWakeRefs |-> w0, nDrops |-> c0]

InitWith(bursts) ==
    /\ variant \in Variants
    /\ overflowChecks \in BOOLEAN
    /\ burstLeft \in bursts
    /\ \E w0 \in Starts :
       LET c0 == IF variant = "Woke" THEN 0 ELSE w0 IN
          /\ burstLeft > 0 => w0 = 0
          /\ variant = "Dummy" => w0 = 0
          /\ wakey = CASE variant = "Woke" ->
                            [new(variant) EXCEPT
                               !.counter = IF w0 = 0 THEN <<0, 0>> ELSE <<U16Modulus - 1, w0>>]
                       [] variant = "Dummy" -> new(variant)
                       [] OTHER ->
                            [new(variant) EXCEPT !.cloned = c0, !.dropped = c0, !.woken = w0]
          /\ hist = hist0(c0, w0)
    /\ burstLeft > 0 => variant \notin {"Woke", "Dummy"}
    /\ alive = TRUE
    /\ pc = "idle"
    /\ call = "none"
    /\ recorded = 0
    /\ ret = NoRet
    /\ taskDone = FALSE
    /\ heldTask = 0
    /\ heldExt = 0
    /\ fuel = MaxOps
    /\ callsLeft = MaxCalls

\* A task may open its first advance with U16Modulus wake_by_ref calls.
Init == InitWith({0, U16Modulus})

(***************************************************************************)
(* Stepping calls.                                                         *)
(***************************************************************************)
CanCall == pc = "idle" /\ alive /\ ~taskDone /\ callsLeft > 0

StartCall(name) ==
    /\ call' = name
    /\ pc' = "advance"
    /\ callsLeft' = callsLeft - 1
    /\ wakey' = waker(variant, wakey)
    /\ ret' = NoRet
    /\ hist' = [hist EXCEPT !.advances = 1, !.wakesAdv = 0, !.prevWakes = 0,
                            !.lastResult = NoRet, !.opsCall = 0,
                            !.wakesCall = 0, !.wakesBefore = 0, !.oneEach = TRUE,
                            !.entry = Counters(wakey)]
    /\ UNCHANGED <<variant, overflowChecks, alive, taskDone, heldTask, heldExt,
                   burstLeft, fuel>>

\* poll(): up to the call of Future::poll.
Poll ==
    /\ CanCall
    /\ StartCall("poll")
    /\ UNCHANGED recorded

\* poll_while_woken(): record the counter, up to the first call of Future::poll.
PollWhileWoken ==
    /\ CanCall
    /\ variant # "Dummy"
    /\ StartCall("pww")
    /\ recorded' = pww_enter(variant, wakey)

\* Future::poll returns r: the rest of poll(), and for poll_while_woken the
\* rest of the loop iteration up to the next call of Future::poll.
TaskReturn(r) ==
    /\ pc = "advance"
    /\ burstLeft = 0
    /\ LET s == poll_leave(variant, wakey, overflowChecks)
           st == IF call = "poll"
                 THEN IF variant = "Dummy" THEN Dummy_poll_step(r, recorded)
                      ELSE poll_step(r, recorded)
                 ELSE pww_step(variant, r, woken_of(variant, s), recorded)
       IN /\ wakey' = (IF st.done THEN s ELSE waker(variant, s))
          /\ recorded' = st.recorded
          /\ ret' = st.ret
          /\ pc' = IF st.done THEN "idle" ELSE "advance"
          /\ hist' = [hist EXCEPT
                        !.lastResult = r,
                        !.prevWakes = hist.wakesAdv,
                        !.wakesBefore = IF r = Pending THEN @ + hist.wakesAdv ELSE @,
                        !.oneEach = IF r = Pending THEN @ /\ hist.wakesAdv = 1 ELSE @,
                        !.advances = IF st.done THEN @ ELSE @ + 1,
                        !.wakesAdv = IF st.done THEN @ ELSE 0]
    /\ taskDone' = (r.tag = "Ready")
    /\ UNCHANGED <<variant, overflowChecks, alive, call, heldTask, heldExt,
                   burstLeft, fuel, callsLeft>>

(***************************************************************************)
(* Observers: woken(), cloned(), dropped(), live(), stats() of wookie.rs   *)
(* and local.rs, count() of lib.rs (dummy.rs has none).  Each takes the    *)
(* pinned harness, so it runs between stepping calls; its value is left in *)
(* ret.                                                                    *)
(***************************************************************************)
Observers == {"woken", "cloned", "dropped", "live", "stats"}

\* `cloned - dropped` on u16: wraps without overflow checks, panics with them.
live_overflows(s, oc) == oc /\ s.dropped > s.cloned
live_value(s) == (s.cloned - s.dropped) % U16Modulus

\* Mutant: woken() loads the cloned counter.
Mut_observe_woken_loads_cloned(which, s) ==
    CASE which = "woken" -> s.cloned
      [] which = "cloned" -> s.cloned
      [] which = "dropped" -> s.dropped
      [] which = "live" -> live_value(s)
      [] OTHER -> [cloned |-> s.cloned, dropped |-> s.dropped, woken |-> s.cloned]
\* Mutant: stats() fills its fields in the wrong order.
Mut_observe_stats_swapped(which, s) ==
    CASE which = "woken" -> s.woken
      [] which = "cloned" -> s.cloned
      [] which = "dropped" -> s.dropped
      [] which = "live" -> live_value(s)
      [] OTHER -> [cloned |-> s.dropped, dropped |-> s.cloned, woken |-> s.woken]
Wookie_observe(which, s) ==
    CASE which = "woken" -> s.woken
      [] which = "cloned" -> s.cloned
      [] which = "dropped" -> s.dropped
      [] which = "live" -> live_value(s)
      [] OTHER -> [cloned |-> s.cloned, dropped |-> s.dropped, woken |-> s.woken]
Local_observe(which, s) ==
    CASE which = "woken" -> s.woken
      [] which = "cloned" -> s.cloned
      [] which = "dropped" -> s.dropped
      [] which = "live" -> live_value(s)
      [] OTHER -> [cloned |-> s.cloned, dropped |-> s.dropped, woken |-> s.woken]
Woke_observe(which, s) == s.counter
observe(v, which, s) ==
    CASE v = "Wookie" -> Wookie_observe(which, s)
      [] v = "Local" -> Local_observe(which, s)
      [] OTHER -> Woke_observe(which, s)

Observe(which) ==
    /\ pc = "idle"
    /\ alive
    /\ callsLeft > 0
    /\ variant # "Dummy"
    /\ variant = "Woke" => which = "woken"
    /\ call' = which
    /\ callsLeft' = callsLeft - 1
    /\ IF variant # "Woke" /\ which = "live" /\ live_overflows(wakey, overflowChecks)
       THEN /\ ret' = Panic
            /\ pc' = "unwound"
            /\ wakey' = [wakey EXCEPT !.panicked = TRUE]
       ELSE /\ ret' = [tag |-> "Value", val |-> observe(variant, which, wakey)]
            /\ pc' = pc
            /\ wakey' = wakey
    /\ hist' = [hist EXCEPT !.opsCall = 0]
    /\ UNCHANGED <<variant, overflowChecks, alive, recorded, taskDone, heldTask,
                   heldExt, burstLeft, fuel>>

(***************************************************************************)
(* Operations on wakers.  who: "poll" is the waker the task is polled with *)
(* (borrowed: it can only be cloned or woken by reference), "task" a clone *)
(* the future stores, "ext" a clone stored outside the harness.            *)
(***************************************************************************)
Whos == {"poll", "task", "ext"}

CanUse(who, consuming) ==
    /\ pc \in {"idle", "advance", "dead"}
    /\ who = "poll" => (pc = "advance" /\ ~consuming)
    /\ who = "task" => (pc = "advance" /\ heldTask > 0)
    /\ who = "ext" => heldExt > 0
    /\ IF pc = "advance" /\ burstLeft > 0 THEN who = "poll" ELSE fuel > 0

\* The effect of vtable calls that left the Wakey at s (n of them of the burst).
AfterOp(s, n) ==
    /\ wakey' = s
    /\ pc' = IF s.panicked THEN "unwound" ELSE pc
    /\ ret' = IF s.panicked THEN Panic ELSE ret
    /\ fuel' = IF n > 0 THEN fuel ELSE fuel - 1
    /\ burstLeft' = burstLeft - n
    /\ UNCHANGED <<variant, overflowChecks, alive, call, recorded, taskDone, callsLeft>>

InAdvance == IF pc = "advance" THEN 1 ELSE 0
WhenDead == IF pc = "dead" THEN 1 ELSE 0

Clone(who, dest) ==
    /\ CanUse(who, FALSE)
    /\ ~(pc = "advance" /\ burstLeft > 0)
    /\ dest = "task" => pc = "advance"
    /\ AfterOp(do_clone(variant, wakey, overflowChecks), 0)
    /\ heldTask' = IF dest = "task" THEN heldTask + 1 ELSE heldTask
    /\ heldExt' = IF dest = "ext" THEN heldExt + 1 ELSE heldExt
    /\ hist' = [hist EXCEPT !.nClones = @ + 1, !.opsCall = @ + 1,
                            !.opsDead = @ + WhenDead]

\* One wake_by_ref; while the task is in its opening burst, the next
\* BurstChunk calls of the burst in one step.
WakeByRef(who) ==
    /\ CanUse(who, FALSE)
    /\ LET inBurst == pc = "advance" /\ burstLeft > 0
           n == IF ~inBurst THEN 1
                ELSE IF burstLeft < BurstChunk THEN burstLeft ELSE BurstChunk
       IN /\ AfterOp(wake_by_ref_times(variant, wakey, overflowChecks, n),
                     IF inBurst THEN n ELSE 0)
          /\ hist' = [hist EXCEPT !.nWakeRefs = @ + n, !.opsCall = @ + n,
                                  !.opsDead = @ + WhenDead,
                                  !.wakesAdv = @ + n * InAdvance,
                                  !.wakesCall = @ + n * InAdvance]
    /\ UNCHANGED <<heldTask, heldExt>>

Wake(who) ==
    /\ CanUse(who, TRUE)
    /\ AfterOp(do_wake(variant, wakey, overflowChecks), 0)
    /\ heldTask' = IF who = "task" THEN heldTask - 1 ELSE heldTask
    /\ heldExt' = IF who = "ext" THEN heldExt - 1 ELSE heldExt
    /\ hist' = [hist EXCEPT !.nWakes = @ + 1, !.opsCall = @ + 1,
                            !.opsDead = @ + WhenDead,
                            !.wakesAdv = @ + InAdvance,
                            !.wakesCall = @ + InAdvance]

Drop(who) ==
    /\ CanUse(who, TRUE)
    /\ AfterOp(do_drop(variant, wakey, overflowChecks), 0)
    /\ heldTask' = IF who = "task" THEN heldTask - 1 ELSE heldTask
    /\ heldExt' = IF who = "ext" THEN heldExt - 1 ELSE heldExt
    /\ hist' = [hist EXCEPT !.nDrops = @ + 1, !.opsCall = @ + 1,
                            !.opsDead = @ + WhenDead]

\* The caller's scope ends: the harness and the future inside it are dropped.
DropHarness ==
    /\ pc = "idle"
    /\ alive
    /\ LET s == harness_drop(variant, wakey, heldTask, overflowChecks)
       IN /\ wakey' = s
          /\ pc' = IF s.panicked THEN "unwound" ELSE "dead"
          /\ ret' = IF s.panicked THEN Panic ELSE ret
    /\ alive' = FALSE
    /\ heldTask' = 0
    /\ hist' = [hist EXCEPT !.nDrops = @ + heldTask, !.opsCall = @ + heldTask]
    /\ UNCHANGED <<variant, overflowChecks, call, recorded, taskDone, heldExt,
                   burstLeft, fuel, callsLeft>>

Next ==
    \/ Poll
    \/ PollWhileWoken
    \/ \E r \in TaskResults : TaskReturn(r)
    \/ \E who \in Whos, dest \in {"task", "ext"} : Clone(who, dest)
    \/ \E who \in Whos : WakeByRef(who)
    \/ \E who \in {"task", "ext"} : Wake(who)
    \/ \E who \in {"task", "ext"} : Drop(who)
    \/ DropHarness
    \/ \E which \in Observers : Observe(which)

Spec == Init /\ [][Next]_vars

(***************************************************************************)
(* SpecConc: the heap-backed harness with its cloned wakers on other       *)
(* threads (Waker is Send + Sync).  The harness stays on the main thread,  *)
(* which calls stats() and live() and at last drops the harness; each of   *)
(* the other threads holds handles and issues vtable operations on them.   *)
(* A step is one atomic access to the shared Wakey: one fetch_add of a     *)
(* counter, one load, or one update of the Arc's strong count.  The        *)
(* threads run the same code and have no identity of their own: heldExt is *)
(* the bag of their states [at, held], at the thread's position and held   *)
(* the number of handles it holds; pc is the position of the main thread.  *)
(***************************************************************************)
Thread(at, held) == [at |-> at, held |-> held]

NoLoads ==
    [cloned |-> 0, dropped |-> 0, woken |-> 0,
     snap |-> [cloned |-> 0, dropped |-> 0, woken |-> 0], torn |-> FALSE]

\* The harness has handed one clone of its waker to each thread.
InitConc ==
    /\ variant = "Wookie"
    /\ overflowChecks \in BOOLEAN
    /\ \E c0 \in Starts :
          /\ wakey = [Wookie_new EXCEPT !.cloned = (c0 + MaxThreads) % U16Modulus,
                                        !.dropped = c0, !.woken = c0,
                                        !.strong = 1 + MaxThreads]
          /\ hist = [nClones |-> c0 + MaxThreads, nWakes |-> 0, nWakeRefs |-> c0,
                     nDrops |-> c0, overlapped |-> FALSE]
    /\ alive = TRUE
    /\ pc = "idle"
    /\ call = "none"
    /\ recorded = NoLoads
    /\ ret = NoRet
    /\ taskDone = FALSE
    /\ heldTask = 0
    /\ heldExt = [th \in {Thread("ready", 1)} |-> MaxThreads]
    /\ burstLeft = 0
    /\ fuel = MaxConcOps
    /\ callsLeft = MaxLoads

Loading == pc \in {"stats1", "stats2", "live1"}

\* One atomic step of a thread in state th that leaves the Wakey at s and the
\* thread at position at with held handles.
ThreadStep(th, s, at, held) ==
    /\ wakey' = s
    /\ heldExt' = (heldExt (-) SetToBag({th})) (+) SetToBag({Thread(at, held)})
    /\ recorded' = [recorded EXCEPT
                      !.torn = @ \/ (Loading /\ Counters(s) # Counters(wakey))]
    /\ UNCHANGED <<variant, overflowChecks, alive, pc, call, ret, taskDone, heldTask,
                   burstLeft, callsLeft>>

\* The first step of an operation of a thread on a handle it holds
\* (overlapped: some operation has begun while another was under way).
Begin(th, counter) ==
    /\ th.at = "ready"
    /\ th.held > 0
    /\ fuel > 0
    /\ fuel' = fuel - 1
    /\ hist' = [hist EXCEPT ![counter] = @ + 1,
                            !.overlapped = @ \/ \E u \in BagToSet(heldExt) : u.at # "ready"]

\* do_clone: bump_cloned, then Arc::increment_strong_count.
T_Clone ==
    \E th \in BagToSet(heldExt) :
        /\ Begin(th, "nClones")
        /\ ThreadStep(th, Wookie_bump_cloned(wakey), "clone1", th.held)
T_CloneRetain ==
    \E th \in BagToSet(heldExt) :
        /\ th.at = "clone1"
        /\ ThreadStep(th, Arc_increment_strong_count(wakey), "ready", th.held + 1)
        /\ UNCHANGED <<fuel, hist>>

\* do_wake_by_ref: bump_woken; the Arc is not released.
T_WakeByRef ==
    \E th \in BagToSet(heldExt) :
        /\ Begin(th, "nWakeRefs")
        /\ ThreadStep(th, Wookie_do_wake_by_ref(wakey), "ready", th.held)

\* do_wake: bump_woken, bump_dropped, then the Arc goes out of scope.
T_Wake ==
    \E th \in BagToSet(heldExt) :
        /\ Begin(th, "nWakes")
        /\ ThreadStep(th, Wookie_bump_woken(wakey), "wake1", th.held - 1)
T_WakeDropped ==
    \E th \in BagToSet(heldExt) :
        /\ th.at = "wake1"
        /\ ThreadStep(th, Wookie_bump_dropped(wakey), "release", th.held)
        /\ UNCHANGED <<fuel, hist>>

\* do_drop: bump_dropped, then the Arc goes out of scope.
T_Drop ==
    \E th \in BagToSet(heldExt) :
        /\ Begin(th, "nDrops")
        /\ ThreadStep(th, Wookie_bump_dropped(wakey), "release", th.held - 1)

\* The end of do_wake and do_drop: drop of the Arc<Wakey>.
T_Release ==
    \E th \in BagToSet(heldExt) :
        /\ th.at = "release"
        /\ ThreadStep(th, Arc_drop(wakey), "ready", th.held)
        /\ UNCHANGED <<fuel, hist>>

\* One step of the main thread.
MainStep(at, name, rec, r) ==
    /\ alive
    /\ pc' = at
    /\ call' = name
    /\ recorded' = rec
    /\ ret' = r
    /\ UNCHANGED <<variant, overflowChecks, wakey, alive, taskDone, heldTask, heldExt,
                   burstLeft, fuel, hist>>

\* stats(): the loads of cloned, dropped and woken, in this order.
M_StatsCloned ==
    /\ pc = "idle"
    /\ callsLeft > 0
    /\ callsLeft' = callsLeft - 1
    /\ MainStep("stats1", "stats",
                [NoLoads EXCEPT !.cloned = Wookie_observe("cloned", wakey),
                                !.snap = [cloned |-> wakey.cloned,
                                          dropped |-> wakey.dropped,
                                          woken |-> wakey.woken]],
                NoRet)
M_StatsDropped ==
    /\ pc = "stats1"
    /\ MainStep("stats2", call,
                [recorded EXCEPT !.dropped = Wookie_observe("dropped", wakey)], ret)
    /\ UNCHANGED callsLeft
M_StatsWoken ==
    /\ pc = "stats2"
    /\ LET w == Wookie_observe("woken", wakey)
       IN MainStep("idle", call, [recorded EXCEPT !.woken = w],
                   [tag |-> "Value",
                    val |-> [cloned |-> recorded.cloned, dropped |-> recorded.dropped,
                             woken |-> w]])
    /\ UNCHANGED callsLeft

\* live(): the load of cloned, the load of dropped, the subtraction.
M_LiveCloned ==
    /\ pc = "idle"
    /\ callsLeft > 0
    /\ callsLeft' = callsLeft - 1
    /\ MainStep("live1", "live",
                [NoLoads EXCEPT !.cloned = Wookie_observe("cloned", wakey),
                                !.snap = [cloned |-> wakey.cloned,
                                          dropped |-> wakey.dropped,
                                          woken |-> wakey.woken]],
                NoRet)
M_LiveDropped ==
    /\ pc = "live1"
    /\ LET loaded == [cloned |-> recorded.cloned,
                      dropped |-> Wookie_observe("dropped", wakey)]
       IN IF live_overflows(loaded, overflowChecks)
          THEN MainStep("unwound", call, [recorded EXCEPT !.dropped = loaded.dropped], Panic)
          ELSE MainStep("idle", call, [recorded EXCEPT !.dropped = loaded.dropped],
                        [tag |-> "Value", val |-> live_value(loaded)])
    /\ UNCHANGED callsLeft

\* The harness goes out of scope on the main thread (also when live() unwinds).
M_DropHarness ==
    /\ pc \in {"idle", "unwound"}
    /\ alive
    /\ alive' = FALSE
    /\ wakey' = Wookie_drop(wakey, 0)
    /\ pc' = "gone"
    /\ UNCHANGED <<variant, overflowChecks, call, recorded, ret, taskDone, heldTask,
                   heldExt, burstLeft, fuel, callsLeft, hist>>

NextConc ==
    \/ T_Clone
    \/ T_CloneRetain
    \/ T_WakeByRef
    \/ T_Wake
    \/ T_WakeDropped
    \/ T_Drop
    \/ T_Release
    \/ M_StatsCloned
    \/ M_StatsDropped
    \/ M_StatsWoken
    \/ M_LiveCloned
    \/ M_LiveDropped
    \/ M_DropHarness

SpecConc == InitConc /\ [][NextConc]_vars

(***************************************************************************)
(* Properties.                                                             *)
(***************************************************************************)
Instrumented == variant \in {"Wookie", "Local"}
Held == heldTask + heldExt
Returned(name) == call = name /\ pc = "idle"

\* C1: a poll() that has returned advanced the task exactly once and returned
\* the task's own result; making and discarding the per-poll waker bumped
\* nothing, so with no waker operation since the call began the counters are
\* those of the call's entry.
C1_PollOnce ==
    (Instrumented /\ Returned("poll")) =>
        /\ hist.advances = 1
        /\ ret = hist.lastResult
        /\ hist.opsCall = 0 => Counters(wakey) = hist.entry
C1_Witness ==
    /\ variant = "Local" /\ Returned("poll") /\ callsLeft = MaxCalls - 1
    /\ ret.tag = "Ready" /\ hist.opsCall = 0
    /\ wakey.cloned = 0 /\ wakey.dropped = 0 /\ wakey.woken = 0

\* C2 (as claimed): each counter equals, modulo 2^16, the number of operations
\* issued that bump it: cloned the clones, woken the wakes and wake_by_refs,
\* dropped the drops and the consuming wakes.
C2_CountersCountOps ==
    Instrumented =>
        /\ wakey.cloned = hist.nClones % U16Modulus
        /\ wakey.woken = (hist.nWakes + hist.nWakeRefs) % U16Modulus
        /\ wakey.dropped = (hist.nDrops + hist.nWakes) % U16Modulus

\* C3 (as claimed): poll_while_woken advances again iff the previous advance
\* returned Pending and issued at least one wake, and returns Pending exactly
\* when the latest advance returned Pending and issued no wake.
C3_Original ==
    (Instrumented /\ call = "pww") =>
        /\ (pc = "advance" /\ hist.advances > 1) =>
               (hist.lastResult = Pending /\ hist.prevWakes > 0)
        /\ pc = "idle" =>
               ((ret = Pending) <=> (hist.lastResult = Pending /\ hist.prevWakes = 0))
\* What the loop does instead: it advances again iff the previous advance
\* returned Pending and left woken different from the value recorded before it,
\* that is, issued a number of wakes that is not a multiple of 2^16; it returns
\* Pending exactly when the latest advance returned Pending and issued a
\* multiple of 2^16 wakes (none, in particular).
Pww_RepeatIffWokenChanged ==
    (Instrumented /\ call = "pww") =>
        /\ (pc = "advance" /\ hist.advances > 1) =>
               (hist.lastResult = Pending /\ hist.prevWakes % U16Modulus # 0)
        /\ pc = "idle" =>
               /\ (ret = Pending) <=>
                      (hist.lastResult = Pending /\ hist.prevWakes % U16Modulus = 0)
               /\ ret # Pending => (ret.tag = "Ready" /\ ret = hist.lastResult)
Pww_BurstReturnsPending ==
    /\ Instrumented /\ Returned("pww") /\ ret = Pending
    /\ hist.prevWakes = U16Modulus

C5_QuietTaskOneAdvance ==
    (call = "pww" /\ pc \in {"idle", "advance"}) =>
        /\ hist.advances >= 1
        /\ hist.wakesCall = 0 =>
               (hist.advances = 1 /\ (pc = "idle" => ret = hist.lastResult))
C5_Witness ==
    /\ variant = "Wookie" /\ Returned("pww") /\ ret = Pending
    /\ hist.advances = 1 /\ hist.wakesCall = 0
    /\ hist.entry.woken = 1 /\ heldExt = 1

\* C6: poll_while_woken returns Ready(v) exactly when its latest advance
\* returned Ready(v), and no advance is in progress in a call one of whose
\* advances has returned Ready.
C6_ReadyIsLast ==
    call = "pww" =>
        /\ hist.lastResult.tag = "Ready" => pc # "advance"
        /\ pc = "idle" =>
               /\ ret.tag \in {"Ready", "Pending"}
               /\ (ret.tag = "Ready" \/ hist.lastResult.tag = "Ready") => ret = hist.lastResult
C6_Witness ==
    /\ Returned("pww") /\ ret = Ready(2)
    /\ hist.advances = 2 /\ hist.wakesAdv >= 1

\* C7: in the heap-backed harness no operation touches storage that has been
\* released, and the storage is not released while the harness or a cloned
\* waker is alive.
C7_NoUseAfterFree ==
    variant = "Wookie" =>
        /\ ~wakey.uaf
        /\ wakey.freed => (~alive /\ Held = 0)
C7_Witness ==
    /\ variant = "Wookie" /\ ~alive /\ hist.opsDead >= 2
    /\ wakey.freed /\ ~wakey.uaf

\* C8: in the heap-backed harness the storage is released exactly when the
\* harness is gone and no cloned waker is left, and never twice.
C8_FreedExactlyOnce ==
    variant = "Wookie" =>
        /\ wakey.frees <= 1
        /\ (wakey.frees = 1) <=> wakey.freed
        /\ wakey.freed <=> (~alive /\ Held = 0)
C8_Witness ==
    /\ variant = "Wookie" /\ wakey.frees = 1
    /\ hist.opsDead = 1 /\ hist.nWakes = 1

\* C9: in every step each counter is left as it was or moved forward by at
\* most the number of bumps issued in the step, modulo its width: none is
\* ever decreased or reset.
BumpsIssued(h) == h.nClones + h.nWakes + h.nWakeRefs + h.nDrops
Forward(c, c2, k) == \E j \in 0..k : c2 = (c + j) % U16Modulus
C9_NeverBackwards ==
    [][LET k == BumpsIssued(hist') - BumpsIssued(hist) IN
       /\ Forward(wakey.cloned, wakey'.cloned, k)
       /\ Forward(wakey.dropped, wakey'.dropped, k)
       /\ Forward(wakey.woken, wakey'.woken, k)
       /\ wakey'.counter = wakey.counter
          \/ (k >= 1 /\ wakey'.counter = u32_add_one(wakey.counter))]_vars
C9_Witness ==
    /\ variant = "Wookie" /\ wakey.woken = 0
    /\ hist.nWakes + hist.nWakeRefs = U16Modulus /\ burstLeft = 0 /\ hist.opsCall <= 2

\* C10 (as claimed): a bump of a counter that holds 65535 leaves it at 0 and
\* does not fail, in both instrumented variants.
C10_WrapIsNotAnError ==
    [][Instrumented =>
       /\ (hist'.nClones = hist.nClones + 1 /\ wakey.cloned = U16Modulus - 1) =>
              (wakey'.cloned = 0 /\ ~wakey'.panicked)
       /\ (BumpsIssued(hist') = BumpsIssued(hist) + 1 /\ hist'.nClones = hist.nClones
            /\ hist'.nDrops = hist.nDrops /\ wakey.woken = U16Modulus - 1) =>
              (wakey'.woken = 0 /\ ~wakey'.panicked)
       /\ (BumpsIssued(hist') = BumpsIssued(hist) + 1 /\ hist'.nClones = hist.nClones
            /\ hist'.nWakeRefs = hist.nWakeRefs /\ wakey.dropped = U16Modulus - 1) =>
              (wakey'.dropped = 0 /\ ~wakey'.panicked)]_vars

\* C11 (as claimed): every call of live() returns (cloned - dropped) modulo
\* 2^16 and does not fail, whatever the stored counters are, dropped above
\* cloned included.
C11_LiveNeverFails ==
    [][(Instrumented /\ pc = "idle" /\ call' = "live" /\ callsLeft' = callsLeft - 1) =>
           ret' = [tag |-> "Value", val |-> (wakey.cloned - wakey.dropped) % U16Modulus]]_vars

\* C12: a consuming wake leaves the whole Wakey (counters, strong count,
\* storage) as wake_by_ref followed by drop of the same handle leaves it, and
\* it bumps woken before dropped: dropped is never bumped by a wake that did
\* not bump woken.
C12_WakeIsWakeByRefThenDrop ==
    [][(Instrumented /\ hist'.nWakes = hist.nWakes + 1) =>
           /\ wakey' = do_drop(variant,
                               do_wake_by_ref(variant, wakey, overflowChecks),
                               overflowChecks)
           /\ wakey'.dropped # wakey.dropped => wakey'.woken # wakey.woken]_vars
C12_Witness ==
    /\ variant = "Wookie" /\ ~alive /\ wakey.freed /\ wakey.frees = 1
    /\ hist.nWakes = 1 /\ hist.nWakeRefs = U16Modulus - 1 /\ wakey.woken = 0

\* What a harness reports of its Wakey.
View(s) == [cloned |-> s.cloned, dropped |-> s.dropped, woken |-> s.woken,
            live |-> live_value(s)]
SameReport(loc, heap) == View(loc) = View(heap) /\ (loc.panicked => heap.panicked)

\* C13 (as claimed): the stack-only harness reports what the heap-backed one
\* reports for the same operations: every operation on a living Local harness
\* leaves (cloned, dropped, woken, live) as the operation of wookie.rs leaves
\* them from the same values and fails no more than it does, and
\* poll_while_woken decides as that of wookie.rs decides.
C13_SameAsHeapBacked ==
    [][(variant = "Local" /\ alive /\ alive') =>
           /\ hist'.nClones = hist.nClones + 1 =>
                  SameReport(wakey', Wookie_do_clone(wakey))
           /\ hist'.nWakes = hist.nWakes + 1 =>
                  SameReport(wakey', Wookie_do_wake(wakey))
           /\ hist'.nDrops = hist.nDrops + 1 =>
                  SameReport(wakey', Wookie_do_drop(wakey))
           /\ hist'.nWakeRefs > hist.nWakeRefs =>
                  SameReport(wakey', wake_by_ref_times("Wookie", wakey, overflowChecks,
                                                       hist'.nWakeRefs - hist.nWakeRefs))
           /\ (pc = "advance" /\ call = "pww" /\ hist'.lastResult # hist.lastResult) =>
                  LET st == Wookie_pww_step(hist'.lastResult, Wookie_woken(wakey), recorded)
                  IN /\ ret' = st.ret
                     /\ (pc' = "idle") = st.done]_vars

\* C14: in the stack-only harness the Wakey is destroyed exactly when the
\* harness is, whatever handles are outstanding; handle operations touch a
\* destroyed Wakey exactly when one is issued after the harness is gone, and
\* such an operation is not detected: an operation fails only by the overflow
\* check of a counter that stands at its maximum.
C14_SignalDiesWithHarness ==
    variant = "Local" =>
        /\ wakey.freed <=> ~alive
        /\ wakey.uaf <=> hist.opsDead > 0
        /\ wakey.panicked =>
               /\ overflowChecks
               /\ U16Modulus - 1 \in {wakey.cloned, wakey.dropped, wakey.woken}
C14_Witness ==
    /\ variant = "Local" /\ ~alive /\ heldExt >= 1
    /\ wakey.uaf /\ ~wakey.panicked /\ hist.opsDead = 1 /\ pc = "dead"

\* C15 (as claimed): a poll_while_woken whose every advance returned Pending
\* and issued at least one wake has not returned.  (The advances before the
\* last all returned Pending and changed woken, or the loop would have ended
\* there; so the case is that of the last advance.)
C15_WakingTaskNeverReturns ==
    (Instrumented /\ Returned("pww")) =>
        ~(hist.lastResult = Pending /\ hist.prevWakes >= 1)

\* C17: in the Dummy harness no handle operation and no poll changes any state
\* of the harness (the task's own state apart), and a poll() that has returned
\* advanced the task exactly once and returned the task's own result.
C17_DummyChangesNothing ==
    variant = "Dummy" =>
        /\ wakey = Dummy_new
        /\ Returned("poll") => (hist.advances = 1 /\ ret = hist.lastResult)
C17_Witness ==
    /\ variant = "Dummy" /\ Returned("poll") /\ ret.tag = "Ready"
    /\ hist.opsCall = MaxOps /\ hist.nClones >= 1 /\ hist.nWakeRefs >= 1
    /\ hist.nWakes + hist.nDrops >= 1

\* A step that is a call of an observer.
ObserverStep ==
    /\ Instrumented /\ pc = "idle"
    /\ callsLeft' = callsLeft - 1 /\ call' \in Observers

\* C18: an observer leaves the Wakey as it found it; stats() returns in its
\* fields what cloned(), dropped() and woken() return in the same state; and a
\* stats() that follows a stats() with no poll and no handle operation in
\* between returns the same value.
C18_ObserversOnlyRead ==
    [][ObserverStep =>
           /\ Counters(wakey') = Counters(wakey)
           /\ pc' = "idle" => wakey' = wakey
           /\ call' = "stats" =>
                  ret'.val = [cloned |-> observe(variant, "cloned", wakey'),
                              dropped |-> observe(variant, "dropped", wakey'),
                              woken |-> observe(variant, "woken", wakey')]
           /\ (call = "stats" /\ call' = "stats" /\ hist.opsCall = 0) => ret' = ret]_vars
C18_Witness ==
    /\ variant = "Wookie" /\ call = "stats" /\ pc = "idle" /\ callsLeft = 0
    /\ ret.val = [cloned |-> 2, dropped |-> 1, woken |-> 0]

\* C19 (as claimed): poll_while_woken ends by returning; it returns at the
\* first advance that returned Ready or during which no wake was issued: it
\* does not advance again after such an advance, and it does not return after
\* an advance that returned Pending and issued a wake.
C19_ReturnsAtFirstQuietOrReady ==
    (Instrumented /\ call = "pww") =>
        /\ pc # "unwound"
        /\ (pc = "advance" /\ hist.advances > 1) =>
               (hist.lastResult = Pending /\ hist.prevWakes >= 1)
        /\ pc = "idle" => (hist.lastResult.tag = "Ready" \/ hist.prevWakes = 0)

\* No operation of a thread is under way (SpecConc).
AllDone == \A th \in BagToSet(heldExt) : th.at = "ready"

\* C16: with the handle operations of several threads interleaved at every
\* atomic access, the Wakey is never touched after its release and is released
\* at most once, exactly when the harness is gone, no handle is left and no
\* operation is under way; and once every operation has completed each counter
\* equals the number of operations that bump it, modulo 2^16.
C16_NoLostBump ==
    /\ ~wakey.uaf
    /\ wakey.frees <= 1
    /\ (wakey.frees = 1) <=> wakey.freed
    /\ wakey.freed <=> (~alive /\ AllDone /\ \A th \in BagToSet(heldExt) : th.held = 0)
    /\ AllDone =>
           /\ wakey.cloned = hist.nClones % U16Modulus
           /\ wakey.woken = (hist.nWakes + hist.nWakeRefs) % U16Modulus
           /\ wakey.dropped = (hist.nDrops + hist.nWakes) % U16Modulus
C16_Witness ==
    /\ AllDone /\ fuel = 0 /\ hist.overlapped
    /\ wakey.freed /\ wakey.frees = 1
    /\ hist.nWakes >= 1 /\ wakey.cloned = 1

\* C20: the threads release only handles they hold, so the Wakey never has
\* dropped above cloned (before any wrap); a stats() or live() whose loads no
\* counter bump came between returns the counters as they stood at its first
\* load; with bumps between the loads stats() can return dropped above cloned
\* (C20_Witness), a triple the Wakey never held.
C20_SnapshotUnlessTorn ==
    /\ hist.nClones < U16Modulus => wakey.dropped <= wakey.cloned
    /\ (pc \in {"idle", "gone"} /\ ret.tag = "Value" /\ ~recorded.torn) =>
           /\ call = "stats" => ret.val = recorded.snap
           /\ call = "live" =>
                  ret.val = (recorded.snap.cloned - recorded.snap.dropped) % U16Modulus
C20_Witness ==
    /\ pc \in {"idle", "gone"} /\ call = "stats" /\ ret.tag = "Value" /\ recorded.torn
    /\ hist.nClones < U16Modulus
    /\ ret.val.dropped > ret.val.cloned

\* No counter has gone past its maximum.
NoWrap ==
    /\ hist.nClones < U16Modulus
    /\ hist.nDrops + hist.nWakes < U16Modulus
    /\ hist.nWakes + hist.nWakeRefs < U16Modulus

C22_StrongCountsOwners ==
    variant = "Wookie" =>
        wakey.strong = (IF alive THEN 1 ELSE 0) + Held
C22_Witness ==
    /\ variant = "Wookie" /\ ~alive /\ wakey.strong = 1 /\ heldExt = 1
    /\ hist.nClones = 2 /\ hist.nWakes = 1 /\ call = "poll"

\* C23 (as claimed): in the executor of lib.rs every wake and wake_by_ref
\* raises the count by exactly 1 and does not fail, no other step changes it
\* (it is never reset), and poll_while_woken advances again exactly when the
\* advance returned Pending and left the count different from the value read
\* before it.
WakesIssued(h) == h.nWakes + h.nWakeRefs
C23_CountCountsWakes ==
    [][variant = "Woke" =>
       /\ WakesIssued(hist') = WakesIssued(hist) => wakey'.counter = wakey.counter
       /\ WakesIssued(hist') = WakesIssued(hist) + 1 =>
              /\ wakey'.counter = u32_add_one(wakey.counter)
              /\ wakey'.counter # <<0, 0>>
              /\ ~wakey'.panicked
       /\ (call = "pww" /\ pc = "advance" /\ BumpsIssued(hist') = BumpsIssued(hist)) =>
              ((pc' = "advance") <=>
                   (hist'.lastResult = Pending /\ wakey.counter # recorded))]_vars
\* What holds instead: the same, for every wake but the one issued with the
\* count at 2^32 - 1.
Woke_CountsBelowWrap ==
    [][variant = "Woke" =>
       /\ WakesIssued(hist') = WakesIssued(hist) => wakey'.counter = wakey.counter
       /\ (WakesIssued(hist') = WakesIssued(hist) + 1
            /\ wakey.counter # <<U16Modulus - 1, U16Modulus - 1>>) =>
              /\ wakey'.counter = u32_add_one(wakey.counter)
              /\ wakey'.counter # <<0, 0>>
              /\ ~wakey'.panicked
       /\ (call = "pww" /\ pc = "advance" /\ BumpsIssued(hist') = BumpsIssued(hist)) =>
              ((pc' = "advance") <=>
                   (hist'.lastResult = Pending /\ wakey.counter # recorded))]_vars

====
